---- MODULE Spec2Model ----
(***************************************************************************)
(* A model of src/cleaning.py: the tabular cleaning pipeline clean_data    *)
(* and the thirteen stage functions it calls, over the pandas semantics    *)
(* (pandas 1.x / 2.x, the versions that accept errors='ignore') the code  *)
(* relies on.                                                              *)
(*                                                                         *)
(* A Python string is a sequence of one-character strings.  A number is an *)
(* integer count of tenths (12.5 is 125), so that one fractional digit is  *)
(* exact.  A cell is a record [k, n, s]: k is "miss" (NaN / NaT), "num",   *)
(* "txt" or "dt" (a Timestamp); n is the number; s is the text.  A table   *)
(* is [cols, kinds, rows]: the column labels, the dtype of each column     *)
(* ("int", "float", "obj", "dt") and the rows, each a sequence of cells.   *)
(***************************************************************************)
EXTENDS Integers, Sequences, FiniteSets, TLC

VARIABLES
    mode,     \* "clean_data": the pipeline is called; "direct": one stage
              \* function is called on its own; "names": SpecNames
    src,      \* the table the call was given
    df,       \* the table clean_data holds in its local variable df
    prev,     \* the table the last executed stage received
    last,     \* the name of the last executed stage ("" before the first)
    trace,    \* the stages executed so far in this call of clean_data
    pc,       \* index in Order of the next stage; Len(Order)+1 when returned
    pass,     \* 1: clean_data(T); 2: clean_data(clean_data(T))
    out1,     \* the table the first call returned
    raised,   \* TRUE once a stage has raised an exception
    name,     \* SpecNames: a raw column label
    cleaned,  \* SpecNames: the label clean_column_names produced for it
    phase     \* SpecNames: "raw" before the stage, "clean" after

vars == <<mode, src, df, prev, last, trace, pc, pass, out1, raised, name, cleaned, phase>>

-----------------------------------------------------------------------------
(* Characters and strings *)

UpperChars == <<"A","B","C","D","E","F","G","H","I","J","K","L","M","N","O","P","Q","R","S","T","U","V","W","X","Y","Z">>
LowerChars == <<"a","b","c","d","e","f","g","h","i","j","k","l","m","n","o","p","q","r","s","t","u","v","w","x","y","z">>
DigitChars == <<"0","1","2","3","4","5","6","7","8","9">>

Range(f) == {f[i] : i \in DOMAIN f}

Whitespace == {" "}

\* the character class [a-z0-9] of the pattern at line 20
AlnumLower == Range(LowerChars) \cup Range(DigitChars)

\* every character the model's strings are made of
Chars == Range(UpperChars) \cup AlnumLower \cup Whitespace \cup {"_", "-", "%", ".", ":"}

\* str.lower on one character
LowerChar(c) ==
    IF c \in Range(UpperChars)
    THEN LowerChars[CHOOSE i \in DOMAIN UpperChars : UpperChars[i] = c]
    ELSE c

\* str.lower
StrLower(s) == [i \in DOMAIN s |-> LowerChar(s[i])]

RECURSIVE LStrip(_, _)
LStrip(s, set) ==
    IF s # <<>> /\ Head(s) \in set THEN LStrip(Tail(s), set) ELSE s

RECURSIVE RStrip(_, _)
RStrip(s, set) ==
    IF s # <<>> /\ s[Len(s)] \in set THEN RStrip(SubSeq(s, 1, Len(s) - 1), set) ELSE s

\* str.strip(): with no argument the set is the whitespace; strip('_') passes {"_"}
StrStrip(s, set) == RStrip(LStrip(s, set), set)

\* re.sub(class+, '_', s): every maximal run of characters of the class becomes one "_"
RECURSIVE ReplaceRuns(_, _)
ReplaceRuns(s, class) ==
    IF s = <<>> THEN <<>>
    ELSE IF Head(s) \in class
         THEN <<"_">> \o ReplaceRuns(LStrip(Tail(s), class), class)
         ELSE <<Head(s)>> \o ReplaceRuns(Tail(s), class)

\* str.replace(ch, '', regex=False)
RemoveChar(s, ch) == SelectSeq(s, LAMBDA c : c # ch)

\* the label clean_column_names gives a column whose label is s
CleanName(s) ==
    StrStrip(ReplaceRuns(ReplaceRuns(StrLower(StrStrip(s, Whitespace)),
                                     Chars \ AlnumLower), {"_"}), {"_"})

-----------------------------------------------------------------------------
(* Numbers, dates and their string forms *)

DigitVal(c) == (CHOOSE i \in DOMAIN DigitChars : DigitChars[i] = c) - 1

IsDigits(s) == s # <<>> /\ \A i \in DOMAIN s : s[i] \in Range(DigitChars)

RECURSIVE DigitsVal(_)
DigitsVal(s) ==
    IF s = <<>> THEN 0 ELSE 10 * DigitsVal(SubSeq(s, 1, Len(s) - 1)) + DigitVal(s[Len(s)])

RECURSIVE Digits(_)
Digits(n) ==
    IF n < 10 THEN <<DigitChars[n + 1]>> ELSE Digits(n \div 10) \o <<DigitChars[(n % 10) + 1]>>

NanText == <<"n","a","n">>

\* the position of the decimal point of s, 0 when it has none
DotAt(s) == IF \E i \in DOMAIN s : s[i] = "." THEN CHOOSE i \in DOMAIN s : s[i] = "." ELSE 0

\* the texts the numeric parser of pd.to_numeric accepts, within the model's
\* vocabulary: 'nan', or unsigned decimal digits with at most one fractional
\* digit, with surrounding whitespace ignored
IsNumText(s0) ==
    LET s == StrStrip(s0, Whitespace)
        d == DotAt(s)
    IN  \/ StrLower(s) = NanText
        \/ IsDigits(s)
        \/ /\ d > 1
           /\ IsDigits(SubSeq(s, 1, d - 1))
           /\ Len(s) - d <= 1
           /\ \A i \in (d + 1)..Len(s) : s[i] \in Range(DigitChars)

Missing == [k |-> "miss", n |-> 0, s |-> <<>>]
Num(x) == [k |-> "num", n |-> x, s |-> <<>>]
Txt(t) == [k |-> "txt", n |-> 0, s |-> t]
Dt(t) == [k |-> "dt", n |-> 0, s |-> t]

\* the cell the numeric parser gives a text IsNumText accepts
ParseNum(s0) ==
    LET s == StrStrip(s0, Whitespace)
        d == DotAt(s)
    IN  IF StrLower(s) = NanText THEN Missing
        ELSE IF d = 0 THEN Num(10 * DigitsVal(s))
        ELSE Num(10 * DigitsVal(SubSeq(s, 1, d - 1))
                 + (IF d < Len(s) THEN DigitVal(s[Len(s)]) ELSE 0))

\* whether the parsed text denotes an integer (no decimal point, not nan)
IsIntText(s0) ==
    LET s == StrStrip(s0, Whitespace) IN IsDigits(s)

\* str(x) of a number of an int64 (kind "int") or float64 column
FormatNum(kind, x) ==
    IF kind = "int" THEN Digits(x \div 10)
    ELSE Digits(x \div 10) \o <<".">> \o <<DigitChars[(x % 10) + 1]>>

\* the texts pd.to_datetime parses, within the model's vocabulary: 'nan'
\* (NaT) and ISO dates YYYY-MM-DD
IsIsoDate(s) ==
    /\ Len(s) = 10
    /\ s[5] = "-" /\ s[8] = "-"
    /\ \A i \in {1, 2, 3, 4, 6, 7, 9, 10} : s[i] \in Range(DigitChars)
    /\ DigitsVal(SubSeq(s, 6, 7)) \in 1..12
    /\ DigitsVal(SubSeq(s, 9, 10)) \in 1..31

NatTexts == {<<"n","a","n">>, <<"N","a","N">>, <<"N","A","N">>, <<"n","a","t">>, <<"N","a","T">>, <<"N","A","T">>}

IsDateText(s) == s \in NatTexts \/ IsIsoDate(s)

ParseDate(s) == IF s \in NatTexts THEN Missing ELSE Dt(s)

\* str(Timestamp) of a date at midnight
FormatTimestamp(s) == s \o <<" ","0","0",":","0","0",":","0","0">>

\* days from 1970-01-01 to the ISO date s
EpochDays(s) ==
    LET y0  == DigitsVal(SubSeq(s, 1, 4))
        m   == DigitsVal(SubSeq(s, 6, 7))
        d   == DigitsVal(SubSeq(s, 9, 10))
        y   == IF m <= 2 THEN y0 - 1 ELSE y0
        era == y \div 400
        yoe == y - era * 400
        doy == (153 * (IF m > 2 THEN m - 3 ELSE m + 9) + 2) \div 5 + d - 1
        doe == yoe * 365 + yoe \div 4 - yoe \div 100 + doy
    IN  era * 146097 + doe - 719468

\* Series.astype(str) on one cell of a column of dtype kind: NaN becomes the
\* text 'nan'
AsStr(kind, c) ==
    CASE c.k = "miss" -> IF kind = "dt" THEN <<"N","a","T">> ELSE NanText
      [] c.k = "txt"  -> c.s
      [] c.k = "dt"   -> FormatTimestamp(c.s)
      [] c.k = "num"  -> FormatNum(kind, c.n)

-----------------------------------------------------------------------------
(* Tables *)

NumericKinds == {"int", "float"}

NCols(t) == Len(t.cols)
NRows(t) == Len(t.rows)

HasColumn(t, c) == \E j \in DOMAIN t.cols : t.cols[j] = c

\* whether the label of column j labels another column too: df[label] is
\* then a DataFrame, not a Series
IsDuplicated(t, j) == \E j2 \in DOMAIN t.cols : j2 # j /\ t.cols[j2] = t.cols[j]

\* the elements of seq at the positions in keep, in order
Project(seq, keep) ==
    LET idx == SelectSeq([i \in 1..Len(seq) |-> i], LAMBDA i : i \in keep)
    IN  [k \in 1..Len(idx) |-> seq[idx[k]]]

\* the table t with the cell at row i, column j replaced by cell[i][j]
WithCells(t, cell) ==
    [t EXCEPT !.rows = [i \in DOMAIN t.rows |-> [j \in DOMAIN t.cols |-> cell[i][j]]]]

Named(t, c) == {j \in DOMAIN t.cols : t.cols[j] = c}

-----------------------------------------------------------------------------
(* The stages, lines 15-134 *)

clean_column_names(t) ==
    [t EXCEPT !.cols = [j \in DOMAIN t.cols |-> CleanName(t.cols[j])]]

rename_columns(t) ==
    [t EXCEPT !.cols = [j \in DOMAIN t.cols |->
                           IF t.cols[j] = <<"s","t">> THEN <<"s","t","a","t","e">> ELSE t.cols[j]]]

remove_empty_rows_columns_HowAny(t) ==
    LET rows1 == SelectSeq(t.rows, LAMBDA r : \A j \in DOMAIN r : r[j].k # "miss")
        keep  == {j \in DOMAIN t.cols : \E i \in DOMAIN rows1 : rows1[i][j].k # "miss"}
    IN  [cols  |-> Project(t.cols, keep),
         kinds |-> Project(t.kinds, keep),
         rows  |-> [i \in DOMAIN rows1 |-> Project(rows1[i], keep)]]

\* dropna(axis=0, how='all'), then dropna(axis=1, how='all') on its result
remove_empty_rows_columns(t) ==
    LET rows1 == SelectSeq(t.rows, LAMBDA r : \E j \in DOMAIN r : r[j].k # "miss")
        keep  == {j \in DOMAIN t.cols : \E i \in DOMAIN rows1 : rows1[i][j].k # "miss"}
    IN  [cols  |-> Project(t.cols, keep),
         kinds |-> Project(t.kinds, keep),
         rows  |-> [i \in DOMAIN rows1 |-> Project(rows1[i], keep)]]

\* drop_duplicates(): keep='first', every column compared, NaN equal to NaN
remove_duplicates(t) ==
    [t EXCEPT !.rows =
        Project(t.rows, {i \in DOMAIN t.rows :
                            \A i2 \in 1..(i - 1) : t.rows[i2] # t.rows[i]})]

\* df[col].astype(str).str.strip().str.lower() for the columns of dtype object
ObjectColumns(t) == {j \in DOMAIN t.cols : t.kinds[j] = "obj"}

\* df[col] of a duplicated label is a DataFrame, which has no .str
strip_text_columns_raises(t) == \E j \in ObjectColumns(t) : IsDuplicated(t, j)

StrippedCell(kind, c) == Txt(StrLower(StrStrip(AsStr(kind, c), Whitespace)))

strip_text_columns(t) ==
    WithCells(t, [i \in DOMAIN t.rows |-> [j \in DOMAIN t.cols |->
                    IF j \in ObjectColumns(t)
                    THEN StrippedCell(t.kinds[j], t.rows[i][j])
                    ELSE t.rows[i][j]]])

\* Series.replace(mapping) on one cell: a text equal to a key becomes its
\* value; mapping is a set of <<key, value>> pairs
Replaced(mapping, c) ==
    IF c.k = "txt" /\ \E kv \in mapping : kv[1] = c.s
    THEN Txt((CHOOSE kv \in mapping : kv[1] = c.s)[2])
    ELSE c

ReplaceIn(t, col, mapping) ==
    IF HasColumn(t, col)
    THEN WithCells(t, [i \in DOMAIN t.rows |-> [j \in DOMAIN t.cols |->
                         IF j \in Named(t, col)
                         THEN Replaced(mapping, t.rows[i][j])
                         ELSE t.rows[i][j]]])
    ELSE t

GenderMapping_NoTypo ==
    { <<<<"m","a","l","e">>, <<"m">>>>, <<<<"m">>, <<"m">>>>, <<<<"f","e","m","a","l","e">>, <<"f">>>>, <<<<"f">>, <<"f">>>> }

GenderMapping ==
    { <<<<"m","a","l","e">>, <<"m">>>>, <<<<"m">>, <<"m">>>>, <<<<"f","e","m","a","l","e">>, <<"f">>>>,
      <<<<"f">>, <<"f">>>>, <<<<"f","e","m","a","l">>, <<"f">>>> }

clean_gender(t) == ReplaceIn(t, <<"g","e","n","d","e","r">>, GenderMapping)

EducationMapping ==
    { <<<<"m","a","s","t","e","r">>, <<"m","a","s","t","e","r">>>>, <<<<"b","a","c","h","e","l","o","r">>, <<"b","a","c","h","e","l","o","r">>>>,
      <<<<"b","a","c","h","e","l","o","r","s">>, <<"b","a","c","h","e","l","o","r">>>>,
      <<<<"h","i","g","h"," ","s","c","h","o","o","l"," ","o","r"," ","b","e","l","o","w">>, <<"h","i","g","h"," ","s","c","h","o","o","l">>>>,
      <<<<"c","o","l","l","e","g","e">>, <<"c","o","l","l","e","g","e">>>>, <<<<"d","o","c","t","o","r">>, <<"d","o","c","t","o","r","a","t","e">>>> }

clean_education(t) == ReplaceIn(t, <<"e","d","u","c","a","t","i","o","n">>, EducationMapping)

StateMapping ==
    { <<<<"a","z">>, <<"a","r","i","z","o","n","a">>>>, <<<<"w","a">>, <<"w","a","s","h","i","n","g","t","o","n">>>>,
      <<<<"c","a","l","i">>, <<"c","a","l","i","f","o","r","n","i","a">>>> }

clean_state_names(t) == ReplaceIn(t, <<"s","t","a","t","e">>, StateMapping)

PolicyTypeMapping ==
    { <<<<"p","e","r","s","o","n","a","l"," ","a","u","t","o">>, <<"p","e","r","s","o","n","a","l">>>>, <<<<"c","o","r","p","o","r","a","t","e"," ","a","u","t","o">>, <<"c","o","r","p","o","r","a","t","e">>>>,
      <<<<"s","p","e","c","i","a","l"," ","a","u","t","o">>, <<"s","p","e","c","i","a","l">>>> }

clean_policy_type(t) == ReplaceIn(t, <<"p","o","l","i","c","y","_","t","y","p","e">>, PolicyTypeMapping)

\* the default of the parameter cap
Cap == 1000

\* df['monthly_premium_auto'] > cap compares every cell with a number: a
\* str (or a Timestamp) against an int raises TypeError
cap_monthly_premium_auto_raises(t) ==
    \E j \in Named(t, <<"m","o","n","t","h","l","y","_","p","r","e","m","i","u","m","_","a","u","t","o">>) : t.kinds[j] \notin NumericKinds

CappedCell(c) == IF c.k = "num" /\ c.n > 10 * Cap THEN Num(10 * Cap) ELSE c

cap_monthly_premium_auto(t) ==
    IF HasColumn(t, <<"m","o","n","t","h","l","y","_","p","r","e","m","i","u","m","_","a","u","t","o">>)
    THEN WithCells(t, [i \in DOMAIN t.rows |-> [j \in DOMAIN t.cols |->
                         IF j \in Named(t, <<"m","o","n","t","h","l","y","_","p","r","e","m","i","u","m","_","a","u","t","o">>)
                         THEN CappedCell(t.rows[i][j])
                         ELSE t.rows[i][j]]])
    ELSE t

\* the text lines 107-112 leave in a cell
LifetimeText(kind, c) == StrStrip(RemoveChar(AsStr(kind, c), "%"), Whitespace)

\* pd.to_numeric(..., errors='coerce') on that text
LifetimeCell(kind, c) ==
    IF IsNumText(LifetimeText(kind, c)) THEN ParseNum(LifetimeText(kind, c)) ELSE Missing

\* the dtype to_numeric returns for column j: int64 when every value parsed
\* as an integer, float64 otherwise
LifetimeKind(t, j) ==
    IF \A i \in DOMAIN t.rows : IsIntText(LifetimeText(t.kinds[j], t.rows[i][j]))
    THEN "int" ELSE "float"

clean_customer_lifetime_value(t) ==
    IF HasColumn(t, <<"c","u","s","t","o","m","e","r","_","l","i","f","e","t","i","m","e","_","v","a","l","u","e">>)
    THEN [cols  |-> t.cols,
          kinds |-> [j \in DOMAIN t.cols |->
                       IF j \in Named(t, <<"c","u","s","t","o","m","e","r","_","l","i","f","e","t","i","m","e","_","v","a","l","u","e">>)
                       THEN LifetimeKind(t, j) ELSE t.kinds[j]],
          rows  |-> [i \in DOMAIN t.rows |-> [j \in DOMAIN t.cols |->
                       IF j \in Named(t, <<"c","u","s","t","o","m","e","r","_","l","i","f","e","t","i","m","e","_","v","a","l","u","e">>)
                       THEN LifetimeCell(t.kinds[j], t.rows[i][j])
                       ELSE t.rows[i][j]]]]
    ELSE t

\* pd.to_numeric(df[col], errors='ignore') parses a value of an object column
NumericParsable(c) == c.k \in {"miss", "num"} \/ (c.k = "txt" /\ IsNumText(c.s))

\* pd.to_datetime(df[col], errors='ignore') parses a value of an object column
DateParsable(c) == c.k \in {"miss", "dt"} \/ (c.k = "txt" /\ IsDateText(c.s))

\* what lines 119-124 make of column j: its dtype and the conversion of a cell.
\* to_numeric views a datetime64 column as int64 (nanoseconds since the epoch
\* in pandas; the model counts days, which fit its integers; NaT is the
\* least int64); an object column becomes numeric when every value parses,
\* else datetime64 when every value parses as a date, else stays as it is
ConvertedKind(t, j) ==
    CASE t.kinds[j] \in NumericKinds -> t.kinds[j]
      [] t.kinds[j] = "dt" -> "int"
      [] OTHER ->
            IF \A i \in DOMAIN t.rows : NumericParsable(t.rows[i][j])
            THEN IF \A i \in DOMAIN t.rows :
                        \/ t.rows[i][j].k = "num" /\ t.rows[i][j].n % 10 = 0
                        \/ t.rows[i][j].k = "txt" /\ IsIntText(t.rows[i][j].s)
                 THEN "int" ELSE "float"
            ELSE IF \A i \in DOMAIN t.rows : DateParsable(t.rows[i][j])
                 THEN "dt" ELSE "obj"

ConvertedCell(t, j, c) ==
    CASE t.kinds[j] \in NumericKinds -> c
      [] t.kinds[j] = "dt" ->
            IF c.k = "dt" THEN Num(10 * EpochDays(c.s)) ELSE Num(10 * (0 - 106752))
      [] OTHER ->
            CASE ConvertedKind(t, j) \in NumericKinds ->
                    IF c.k = "txt" THEN ParseNum(c.s) ELSE c
              [] ConvertedKind(t, j) = "dt" ->
                    IF c.k = "txt" THEN ParseDate(c.s) ELSE c
              [] OTHER -> c

\* pd.to_numeric(df[col]) of a duplicated label is given a DataFrame and
\* raises TypeError before errors='ignore' applies
convert_data_types_raises(t) == \E j \in DOMAIN t.cols : IsDuplicated(t, j)

convert_data_types(t) ==
    [cols  |-> t.cols,
     kinds |-> [j \in DOMAIN t.cols |-> ConvertedKind(t, j)],
     rows  |-> [i \in DOMAIN t.rows |->
                 [j \in DOMAIN t.cols |-> ConvertedCell(t, j, t.rows[i][j])]]]

UnknownText == <<"u","n","k","n","o","w","n">>

FilledCell_IgnoresDtype(kind, c) == IF c.k # "miss" THEN c ELSE Txt(UnknownText)

\* fillna(0) on a numeric column, fillna('unknown') on any other
FilledCell(kind, c) ==
    IF c.k # "miss" THEN c
    ELSE IF kind \in NumericKinds THEN Num(0) ELSE Txt(UnknownText)

\* a datetime64 column that takes the text 'unknown' becomes an object column
FilledKind(t, j) ==
    IF t.kinds[j] = "dt" /\ \E i \in DOMAIN t.rows : t.rows[i][j].k = "miss"
    THEN "obj" ELSE t.kinds[j]

handle_missing_values(t) ==
    [cols  |-> t.cols,
     kinds |-> [j \in DOMAIN t.cols |-> FilledKind(t, j)],
     rows  |-> [i \in DOMAIN t.rows |->
                 [j \in DOMAIN t.cols |-> FilledCell(t.kinds[j], t.rows[i][j])]]]

-----------------------------------------------------------------------------
(* clean_data, lines 136-151 *)

\* the calls of clean_data, top to bottom
Order ==
    << "clean_column_names", "rename_columns", "remove_empty_rows_columns",
       "remove_duplicates", "strip_text_columns", "clean_gender",
       "clean_education", "clean_state_names", "cap_monthly_premium_auto",
       "clean_policy_type", "clean_customer_lifetime_value",
       "convert_data_types", "handle_missing_values" >>

Returned == pc = Len(Order) + 1 /\ ~raised

EmptyTable == [cols |-> <<>>, kinds |-> <<>>, rows |-> <<>>]

\* whether the stage function raises on t, and the table it returns otherwise
Raises(stage, t) ==
    CASE stage = "strip_text_columns" -> strip_text_columns_raises(t)
      [] stage = "cap_monthly_premium_auto" -> cap_monthly_premium_auto_raises(t)
      [] stage = "convert_data_types" -> convert_data_types_raises(t)
      [] OTHER -> FALSE

Result(stage, t) ==
    CASE stage = "clean_column_names" -> clean_column_names(t)
      [] stage = "rename_columns" -> rename_columns(t)
      [] stage = "remove_empty_rows_columns" -> remove_empty_rows_columns(t)
      [] stage = "remove_duplicates" -> remove_duplicates(t)
      [] stage = "strip_text_columns" -> strip_text_columns(t)
      [] stage = "clean_gender" -> clean_gender(t)
      [] stage = "clean_education" -> clean_education(t)
      [] stage = "clean_state_names" -> clean_state_names(t)
      [] stage = "cap_monthly_premium_auto" -> cap_monthly_premium_auto(t)
      [] stage = "clean_policy_type" -> clean_policy_type(t)
      [] stage = "clean_customer_lifetime_value" -> clean_customer_lifetime_value(t)
      [] stage = "convert_data_types" -> convert_data_types(t)
      [] stage = "handle_missing_values" -> handle_missing_values(t)

\* the stage function runs on df: it either raises or its result becomes df
Run(stage) ==
    /\ prev' = df
    /\ last' = stage
    /\ trace' = Append(trace, stage)
    /\ IF Raises(stage, df)
       THEN raised' = TRUE /\ UNCHANGED df
       ELSE df' = Result(stage, df) /\ UNCHANGED raised
    /\ UNCHANGED <<mode, src, pass, out1, name, cleaned, phase>>

\* one line of clean_data: an exception ends clean_data, otherwise the next
\* line follows
Call(stage) ==
    /\ ~raised
    /\ pc \in DOMAIN Order
    /\ Order[pc] = stage
    /\ Run(stage)
    /\ pc' = IF Raises(stage, df) THEN pc ELSE pc + 1

CleanColumnNames == Call("clean_column_names")
RenameColumns == Call("rename_columns")
RemoveEmptyRowsColumns == Call("remove_empty_rows_columns")
RemoveDuplicates == Call("remove_duplicates")
StripTextColumns == Call("strip_text_columns")
CleanGender == Call("clean_gender")
CleanEducation == Call("clean_education")
CleanStateNames == Call("clean_state_names")
CapMonthlyPremiumAuto == Call("cap_monthly_premium_auto")
CleanPolicyType == Call("clean_policy_type")
CleanCustomerLifetimeValue == Call("clean_customer_lifetime_value")
ConvertDataTypes == Call("convert_data_types")
HandleMissingValues == Call("handle_missing_values")

\* a caller applies one stage function to its table, outside clean_data
DirectCall ==
    /\ mode = "direct"
    /\ last = ""
    /\ \E stage \in Range(Order) : Run(stage)
    /\ UNCHANGED pc

\* clean_data is called again, on the table it returned
CleanAgain ==
    /\ Returned
    /\ pass = 1
    /\ out1' = df
    /\ src' = df
    /\ pass' = 2
    /\ pc' = 1
    /\ trace' = <<>>
    /\ last' = ""
    /\ prev' = df
    /\ UNCHANGED <<mode, df, raised, name, cleaned, phase>>

-----------------------------------------------------------------------------
(* The input tables *)

MaxRows == 3

\* the loader's dtype for a column: object for a column without rows,
\* float64 for a column of missing values only, object for text, and for
\* numbers int64 when every value is a whole number, float64 otherwise
LoadedKind(decl, cells) ==
    IF cells = <<>> THEN "obj"
    ELSE IF \A i \in DOMAIN cells : cells[i].k = "miss" THEN "float"
    ELSE IF decl = "obj" THEN "obj"
    ELSE IF \A i \in DOMAIN cells : cells[i].k = "num" /\ cells[i].n % 10 = 0
         THEN "int" ELSE "float"

\* the input shapes: the raw labels, whether the loader read text or
\* numbers, and the values a cell of each column is drawn from
Schemas ==
    { [cols |-> << <<"G","E","N","D","E","R">> >>, decl |-> << "obj" >>,
       vals |-> << {Txt(<<"F","e","m","a","l"," ">>), Txt(<<"M">>), Txt(<<"o","t","h","e","r">>), Missing} >>],
      [cols |-> << <<"G","e","n","d","e","r">>, <<"S","T">> >>, decl |-> << "obj", "obj" >>,
       vals |-> << {Txt(<<"M","a","l","e">>), Txt(<<"A","Z">>)}, {Txt(<<"M">>), Txt(<<"C","a","l","i">>)} >>],
      [cols |-> << <<"S","T">>, <<"s","t","a","t","e">> >>, decl |-> << "obj", "obj" >>,
       vals |-> << {Txt(<<"A","Z">>), Missing}, {Txt(<<"w","a">>), Missing} >>],
      [cols |-> << <<" ","P","o","l","i","c","y"," ","T","y","p","e"," ">> >>, decl |-> << "obj" >>,
       vals |-> << {Txt(<<"P","e","r","s","o","n","a","l"," ","A","u","t","o">>), Txt(<<"C","o","r","p","o","r","a","t","e"," ","A","u","t","o"," ">>),
                    Txt(<<"s","p","e","c","i","a","l">>), Missing} >>],
      [cols |-> << <<"E","d","u","c","a","t","i","o","n">> >>, decl |-> << "obj" >>,
       vals |-> << {Txt(<<"B","a","c","h","e","l","o","r","s">>), Txt(<<"H","i","g","h"," ","S","c","h","o","o","l"," ","o","r"," ","B","e","l","o","w">>),
                    Txt(<<"D","o","c","t","o","r">>), Missing} >>],
      [cols |-> << <<"M","o","n","t","h","l","y"," ","P","r","e","m","i","u","m"," ","A","u","t","o">> >>, decl |-> << "num" >>,
       vals |-> << {Num(8000), Num(10000), Num(15000), Missing} >>],
      [cols |-> << <<"M","o","n","t","h","l","y"," ","P","r","e","m","i","u","m"," ","A","u","t","o">> >>, decl |-> << "obj" >>,
       vals |-> << {Txt(<<"h","i","g","h">>), Txt(<<"1","5","0","0">>), Missing} >>],
      [cols |-> << <<"C","u","s","t","o","m","e","r"," ","L","i","f","e","t","i","m","e"," ","V","a","l","u","e">> >>, decl |-> << "obj" >>,
       vals |-> << {Txt(<<"1","2",".","5","%">>), Txt(<<"b","a","d","-","v","a","l","u","e">>), Txt(<<"8","0","0">>), Missing} >>],
      [cols |-> << <<"C","u","s","t","o","m","e","r"," ","L","i","f","e","t","i","m","e"," ","V","a","l","u","e">> >>, decl |-> << "num" >>,
       vals |-> << {Num(125), Num(8000), Missing} >>],
      [cols |-> << <<"C","u","s","t","o","m","e","r">>, <<"I","n","c","o","m","e">> >>, decl |-> << "obj", "num" >>,
       vals |-> << {Txt(<<"A"," ">>), Txt(<<"a">>)}, {Num(0), Missing} >>],
      [cols |-> << <<"E","f","f","e","c","t","i","v","e"," ","T","o"," ","D","a","t","e">>, <<"I","n","c","o","m","e">> >>, decl |-> << "obj", "num" >>,
       vals |-> << {Txt(<<"2","0","1","1","-","0","2","-","1","8">>), Txt(<<"s","o","o","n">>), Missing}, {Num(480), Missing} >>],
      [cols |-> << <<"I","D">>, <<"-","-">> >>, decl |-> << "num", "obj" >>,
       vals |-> << {Num(10), Num(25)}, {Txt(<<"X">>), Missing} >>] }

RowsOf(sch) ==
    {r \in [DOMAIN sch.cols -> UNION Range(sch.vals)] :
        \A j \in DOMAIN r : r[j] \in sch.vals[j]}

InputTables ==
    UNION { { [cols  |-> sch.cols,
               kinds |-> [j \in DOMAIN sch.cols |->
                            LoadedKind(sch.decl[j], [i \in DOMAIN rows |-> rows[i][j]])],
               rows  |-> rows] :
              rows \in UNION {[1..n -> RowsOf(sch)] : n \in 0..MaxRows} } :
            sch \in Schemas }

-----------------------------------------------------------------------------
(* Column labels on their own *)

MaxLen == 3

\* one character of each class the patterns of clean_column_names tell apart
LabelChars == {"A", "b", "1", "_", " ", "-"}

Labels == UNION {[1..n -> LabelChars] : n \in 1..MaxLen}

\* clean_column_names on a table whose only label is name
NormalizeLabel ==
    /\ phase = "raw"
    /\ cleaned' = clean_column_names([cols |-> <<name>>, kinds |-> <<"obj">>,
                                      rows |-> <<>>]).cols[1]
    /\ phase' = "clean"
    /\ UNCHANGED <<mode, src, df, prev, last, trace, pc, pass, out1, raised, name>>

-----------------------------------------------------------------------------
(* Specifications *)

Init ==
    /\ mode \in {"clean_data", "direct"}
    /\ src \in InputTables
    /\ df = src
    /\ prev = src
    /\ last = ""
    /\ trace = <<>>
    /\ pc = IF mode = "clean_data" THEN 1 ELSE 0
    /\ pass = 1
    /\ out1 = EmptyTable
    /\ raised = FALSE
    /\ name = <<>>
    /\ cleaned = <<>>
    /\ phase = "idle"

Next ==
    \/ CleanColumnNames
    \/ RenameColumns
    \/ RemoveEmptyRowsColumns
    \/ RemoveDuplicates
    \/ StripTextColumns
    \/ CleanGender
    \/ CleanEducation
    \/ CleanStateNames
    \/ CapMonthlyPremiumAuto
    \/ CleanPolicyType
    \/ CleanCustomerLifetimeValue
    \/ ConvertDataTypes
    \/ HandleMissingValues
    \/ CleanAgain
    \/ DirectCall

Spec == Init /\ [][Next]_vars

InitNames ==
    /\ name \in Labels
    /\ cleaned = <<>>
    /\ phase = "raw"
    /\ mode = "names"
    /\ src = EmptyTable
    /\ df = EmptyTable
    /\ prev = EmptyTable
    /\ last = ""
    /\ trace = <<>>
    /\ pc = 1
    /\ pass = 1
    /\ out1 = EmptyTable
    /\ raised = FALSE

NextNames == NormalizeLabel

SpecNames == InitNames /\ [][NextNames]_vars

-----------------------------------------------------------------------------
(* The claims *)

Ran(stage) == last = stage /\ ~raised

Cells(t) == (DOMAIN t.rows) \X (DOMAIN t.cols)

SameShape(a, b) == a.cols = b.cols /\ NRows(a) = NRows(b)

\* C1: after handle_missing_values no cell is missing: a cell that was
\* missing in a numeric column holds 0, a cell that was missing in any other
\* column holds the text 'unknown', and every other cell is unchanged.
C1_FillPostcondition ==
    Ran("handle_missing_values") =>
        /\ SameShape(prev, df)
        /\ \A ij \in Cells(prev) :
              LET before == prev.rows[ij[1]][ij[2]]
                  after  == df.rows[ij[1]][ij[2]]
              IN  /\ after.k # "miss"
                  /\ before.k # "miss" => after = before
                  /\ (before.k = "miss" /\ prev.kinds[ij[2]] \in {"int", "float"})
                        => after = Num(0)
                  /\ (before.k = "miss" /\ prev.kinds[ij[2]] \notin {"int", "float"})
                        => after = Txt(<<"u","n","k","n","o","w","n">>)

\* handle_missing_values has filled a numeric column and a non-numeric one
C1_Witness ==
    /\ Ran("handle_missing_values")
    /\ \E ij \in Cells(prev) :
          /\ prev.rows[ij[1]][ij[2]].k = "miss" /\ prev.kinds[ij[2]] = "float"
          /\ df.rows[ij[1]][ij[2]] = Num(0)
    /\ \E ij \in Cells(prev) :
          /\ prev.rows[ij[1]][ij[2]].k = "miss" /\ prev.kinds[ij[2]] = "obj"
          /\ df.rows[ij[1]][ij[2]] = Txt(<<"u","n","k","n","o","w","n">>)
    /\ \E ij \in Cells(prev) : prev.rows[ij[1]][ij[2]].k # "miss"

\* C2: clean_data is idempotent: the second call, on the table the first
\* call returned, returns that same table.
C2_Idempotent ==
    pass = 2 => /\ ~raised
                /\ Returned => df = out1

\* the text a cell holds once trimmed and lowercased; any other cell itself
Normalized(c) == IF c.k = "txt" THEN Txt(StrLower(StrStrip(c.s, Whitespace))) ELSE c

\* rows a and b of t differ, and only in text cells that trimming and
\* lowercasing make equal
DifferOnlyInTextForm(t, a, b) ==
    /\ t.rows[a] # t.rows[b]
    /\ \A j \in DOMAIN t.cols : Normalized(t.rows[a][j]) = Normalized(t.rows[b][j])

\* C3: when two rows of the input differ only in text cells that trimming
\* and lowercasing make equal, the table clean_data returns holds only one of
\* them: it has no two rows that are cell-wise identical.
C3_NoDuplicateRowsReturned ==
    (/\ Returned
     /\ pass = 1
     /\ \E a, b \in DOMAIN src.rows : DifferOnlyInTextForm(src, a, b))
        => \A a, b \in DOMAIN df.rows : a # b => df.rows[a] # df.rows[b]

IsPrefix(a, b) == Len(a) <= Len(b) /\ a = SubSeq(b, 1, Len(a))

\* C4: clean_data runs the stages in the order names, rename, empty rows and
\* columns, duplicates, text, gender, education, state, policy type, premium
\* cap, lifetime value, type coercion, missing values.
C4_ClaimedOrder ==
    mode = "clean_data" =>
    /\ IsPrefix(trace,
          << "clean_column_names", "rename_columns", "remove_empty_rows_columns",
             "remove_duplicates", "strip_text_columns", "clean_gender",
             "clean_education", "clean_state_names", "clean_policy_type",
             "cap_monthly_premium_auto", "clean_customer_lifetime_value",
             "convert_data_types", "handle_missing_values" >>)
    /\ Returned => Len(trace) = 13

MatchesPattern(s) ==
    /\ s # <<>>
    /\ \A i \in DOMAIN s : s[i] \in AlnumLower \cup {"_"}
    /\ s[1] # "_"
    /\ s[Len(s)] # "_"
    /\ \A i \in 1..(Len(s) - 1) : ~(s[i] = "_" /\ s[i + 1] = "_")

\* C5: the label clean_column_names produces matches [a-z0-9]+(_[a-z0-9]+)*,
\* whatever the label it was given.
C5_LabelMatchesPattern == phase = "clean" => MatchesPattern(cleaned)

Distinct(seq) == \A a, b \in DOMAIN seq : a # b => seq[a] # seq[b]

\* C6: clean_data raises no error on a table whose labels do not collide,
\* whatever the kinds of its columns and whichever target columns are absent.
C6_NeverRaises == (mode = "clean_data" /\ raised) => ~Distinct(df.cols)

\* C7: strip_text_columns leaves every missing cell missing, replaces every
\* other cell of a text column by its trimmed, lowercased text and leaves
\* the other columns unchanged.
C7_StripKeepsMissing ==
    Ran("strip_text_columns") =>
        /\ SameShape(prev, df)
        /\ \A ij \in Cells(prev) :
              LET before == prev.rows[ij[1]][ij[2]]
                  after  == df.rows[ij[1]][ij[2]]
              IN  /\ before.k = "miss" => after.k = "miss"
                  /\ prev.kinds[ij[2]] # "obj" => after = before
                  /\ (prev.kinds[ij[2]] = "obj" /\ before.k = "txt")
                        => after = Txt(StrLower(StrStrip(before.s, Whitespace)))

\* C8: rename_columns renames the column labelled 'st' to 'state' and no
\* other, and labels that were pairwise distinct stay pairwise distinct.
C8_RenameKeepsLabelsDistinct ==
    Ran("rename_columns") =>
        /\ Len(df.cols) = Len(prev.cols)
        /\ \A j \in DOMAIN prev.cols :
              df.cols[j] = IF prev.cols[j] = <<"s","t">> THEN <<"s","t","a","t","e">> ELSE prev.cols[j]
        /\ Distinct(prev.cols) => Distinct(df.cols)

AllMissing(cells) == \A i \in DOMAIN cells : cells[i].k = "miss"

\* the k-th smallest element of a set of numbers
Nth(S, k) == CHOOSE x \in S : Cardinality({y \in S : y < x}) = k - 1

FirstIndex(rows, r) == CHOOSE i \in DOMAIN rows :
                          rows[i] = r /\ \A i2 \in 1..(i - 1) : rows[i2] # r

\* C9: no stage adds a row or a column.  remove_empty_rows_columns removes
\* exactly the rows whose cells are all missing and then exactly the columns
\* whose cells are all missing in the remaining rows; remove_duplicates
\* removes exactly the rows equal to an earlier row; every other stage keeps
\* the row and column counts; the remaining rows keep their order.
C9_RowsAndColumnsOnlyShrink ==
    /\ NRows(df) <= NRows(prev)
    /\ NCols(df) <= NCols(prev)
    /\ last # "remove_empty_rows_columns" => NCols(df) = NCols(prev)
    /\ last \notin {"remove_empty_rows_columns", "remove_duplicates"}
          => NRows(df) = NRows(prev)
    /\ Ran("remove_empty_rows_columns") =>
          LET R == {i \in DOMAIN prev.rows : ~AllMissing(prev.rows[i])}
              K == {j \in DOMAIN prev.cols : ~AllMissing([k \in 1..Cardinality(R) |->
                                                   prev.rows[Nth(R, k)][j]])}
          IN  /\ NRows(df) = Cardinality(R)
              /\ NCols(df) = Cardinality(K)
              /\ \A b \in DOMAIN df.cols :
                    /\ df.cols[b] = prev.cols[Nth(K, b)]
                    /\ df.kinds[b] = prev.kinds[Nth(K, b)]
              /\ \A ab \in Cells(df) :
                    df.rows[ab[1]][ab[2]] = prev.rows[Nth(R, ab[1])][Nth(K, ab[2])]
    /\ Ran("remove_duplicates") =>
          /\ df.cols = prev.cols
          /\ df.kinds = prev.kinds
          /\ Distinct(df.rows)
          /\ Range(df.rows) = Range(prev.rows)
          /\ \A a, b \in DOMAIN df.rows :
                a < b => FirstIndex(prev.rows, df.rows[a]) < FirstIndex(prev.rows, df.rows[b])

\* the input had an empty row, an empty column and a repeated row, and all
\* three have been removed
C9_Witness ==
    /\ Ran("remove_duplicates")
    /\ mode = "clean_data"
    /\ pass = 1
    /\ NRows(df) < NRows(prev)
    /\ NRows(prev) < NRows(src)
    /\ NCols(prev) < NCols(src)
    /\ NRows(df) > 0

\* the mapping table of each categorical mapper, as the claim lists it
C10_Target ==
    [clean_gender |-> <<"g","e","n","d","e","r">>, clean_education |-> <<"e","d","u","c","a","t","i","o","n">>,
     clean_state_names |-> <<"s","t","a","t","e">>, clean_policy_type |-> <<"p","o","l","i","c","y","_","t","y","p","e">>]

C10_Table ==
    [clean_gender |->
        (<<"m","a","l","e">> :> <<"m">>) @@ (<<"m">> :> <<"m">>) @@ (<<"f","e","m","a","l","e">> :> <<"f">>)
        @@ (<<"f">> :> <<"f">>) @@ (<<"f","e","m","a","l">> :> <<"f">>),
     clean_education |->
        (<<"b","a","c","h","e","l","o","r","s">> :> <<"b","a","c","h","e","l","o","r">>)
        @@ (<<"h","i","g","h"," ","s","c","h","o","o","l"," ","o","r"," ","b","e","l","o","w">> :> <<"h","i","g","h"," ","s","c","h","o","o","l">>)
        @@ (<<"d","o","c","t","o","r">> :> <<"d","o","c","t","o","r","a","t","e">>) @@ (<<"m","a","s","t","e","r">> :> <<"m","a","s","t","e","r">>)
        @@ (<<"b","a","c","h","e","l","o","r">> :> <<"b","a","c","h","e","l","o","r">>) @@ (<<"c","o","l","l","e","g","e">> :> <<"c","o","l","l","e","g","e">>),
     clean_state_names |->
        (<<"a","z">> :> <<"a","r","i","z","o","n","a">>) @@ (<<"w","a">> :> <<"w","a","s","h","i","n","g","t","o","n">>)
        @@ (<<"c","a","l","i">> :> <<"c","a","l","i","f","o","r","n","i","a">>),
     clean_policy_type |->
        (<<"p","e","r","s","o","n","a","l"," ","a","u","t","o">> :> <<"p","e","r","s","o","n","a","l">>) @@ (<<"c","o","r","p","o","r","a","t","e"," ","a","u","t","o">> :> <<"c","o","r","p","o","r","a","t","e">>)
        @@ (<<"s","p","e","c","i","a","l"," ","a","u","t","o">> :> <<"s","p","e","c","i","a","l">>)]

\* C10: a categorical mapper replaces a cell of its target column whose text
\* is a key of its table by the mapped text and changes nothing else; with
\* the target column absent it changes nothing at all.
C10_MapperChangesOnlyKeysOfTarget ==
    \A m \in DOMAIN C10_Table :
        Ran(m) =>
            /\ SameShape(prev, df)
            /\ df.kinds = prev.kinds
            /\ \A ij \in Cells(prev) :
                  LET before == prev.rows[ij[1]][ij[2]]
                      after  == df.rows[ij[1]][ij[2]]
                  IN  IF /\ prev.cols[ij[2]] = C10_Target[m]
                         /\ before.k = "txt"
                         /\ before.s \in DOMAIN C10_Table[m]
                      THEN after = Txt(C10_Table[m][before.s])
                      ELSE after = before

\* clean_gender has mapped a cell of gender and left a cell of another
\* column, whose text is a key of its table, as it was
C10_Witness ==
    /\ Ran("clean_gender")
    /\ \E ij \in Cells(prev) :
          /\ prev.cols[ij[2]] = <<"g","e","n","d","e","r">>
          /\ df.rows[ij[1]][ij[2]] # prev.rows[ij[1]][ij[2]]
    /\ \E ij \in Cells(prev) :
          /\ prev.cols[ij[2]] # <<"g","e","n","d","e","r">>
          /\ prev.rows[ij[1]][ij[2]].k = "txt"
          /\ prev.rows[ij[1]][ij[2]].s \in DOMAIN C10_Table["clean_gender"]
          /\ df.rows[ij[1]][ij[2]] = prev.rows[ij[1]][ij[2]]

====
